---------------------------- MODULE Spec2Model ----------------------------
(***************************************************************************)
(* Model of ejenti/pulse_modules/tasksTrigger.py (class TasksTrigger):     *)
(* the construction and its queue clean-up, the scheduler wiring of run(), *)
(* the timestamp and MD5 change checks and their resets, the fan-out of    *)
(* job_pushing_meta_task, the masking of filter_cmd_config and the         *)
(* listener of the "mgt" topic with its rotating log.                      *)
(***************************************************************************)
EXTENDS Integers, Sequences, FiniteSets, TLC

(***************************************************************************)
(* Bounds of the model.                                                    *)
(***************************************************************************)
MaxAmount == 2
MaxTimestamp == 2
MaxHash == 2

(***************************************************************************)
(* Python values.  None is a distinguished string.  A config value is a    *)
(* str or a list of str: a str is kept as the sequence of its              *)
(* comma-separated parts, so that split(",") is computed, not assumed.     *)
(***************************************************************************)
NoneVal == "None"

PyStr(parts) == [kind |-> "str", items |-> parts]

PyList(elems) == [kind |-> "list", items |-> elems]

split_comma(value) == PyList(value.items)

isinstance_list(value) == value.kind = "list"

EmptyDict == [k \in {} |-> PyStr(<<>>)]

DictGet(d, key, default) == IF key \in DOMAIN d THEN d[key] ELSE default

DictSet(d, key, value) == [k \in DOMAIN d \cup {key} |-> IF k = key THEN value ELSE d[k]]

DictDel(d, keys) == [k \in DOMAIN d \ keys |-> d[k]]

Min(S) == CHOOSE m \in S : \A x \in S : m <= x

Max(S) == CHOOSE m \in S : \A x \in S : x <= m

(***************************************************************************)
(* Class constants.                                                        *)
(***************************************************************************)
KEY_JOBS_ENABLE == "enable"

KEY_JOBS_AMOUNT == "amount"

KEY_JOBS_TOPIC == "topic"

KEY_JOBS_PLATFORM_BUILD == "platform_build"

KEY_JOBS_CMD == "cmd"

KEY_JOBS_CONFIGS == "configs"

required_keys == {KEY_JOBS_TOPIC, KEY_JOBS_PLATFORM_BUILD, KEY_JOBS_CMD}

SpecifyCommands == {"run-hasal-on-specify-nightly", "download-specify-nightly"}

CaseListKey == "OVERWRITE_HASAL_SUITE_CASE_LIST"

MGT_ID == "trigger_mgt_listener"

QueryBackfillId(platform_build) == "query_backfill_table_" \o platform_build

STATUS_TAG_PULSE_TRIGGER == "pulse_trigger"

(***************************************************************************)
(* Collaborators of the repository that live outside src/.                 *)
(***************************************************************************)
CredentialKeys == {"password"}

RedactionMarker == PyStr(<<"*****">>)

mask_credential_value(config) ==
    [k \in DOMAIN config |-> IF k \in CredentialKeys THEN RedactionMarker ELSE config[k]]

NoBuildInfo == [archive_url |-> NoneVal, revision |-> NoneVal]

BuildInformation(entry) == [archive_url |-> entry.archive_url, revision |-> entry.revision]

create_job_id_folder(job_name, now) == <<job_name, now>>


(***************************************************************************)
(* Log lines.  Every line has the same shape; cmd_config is the config a   *)
(* line prints (EmptyDict when it prints none).                            *)
(***************************************************************************)
LogLine(level, msg, who) == [level |-> level, msg |-> msg, who |-> who, cmd_config |-> EmptyDict]

LogConfigLine(level, msg, who, config) == [level |-> level, msg |-> msg, who |-> who, cmd_config |-> config]

(***************************************************************************)
(* check_folder: storage is what the file system does in this call:        *)
(* "ok", "folder_fail" (the folder can neither be found nor made) or       *)
(* "open_fail" (open() of the job's record raises IOError).                *)
(***************************************************************************)
StorageOutcomes == {"ok", "folder_fail", "open_fail"}

check_folder(storage) == storage # "folder_fail"

_validate_job_config(job_config) == \A required_key \in required_keys : required_key \in DOMAIN job_config

(***************************************************************************)
(* The signature records: a function from the names of the files that      *)
(* exist in the folder to their content.                                   *)
(***************************************************************************)
write_file_skipped(files, name, content) == files

write_file_shared(files, name, content) == [k \in DOMAIN files \cup {name} |-> content]

write_file(files, name, content) == DictSet(files, name, content)

same_signature_never(original, latest) == FALSE

same_signature_or_older(original, latest) == original >= latest

same_signature(original, latest) == original = latest

table_available(backfill_table_obj) == DOMAIN backfill_table_obj # {}

CheckResult(raised, changed, build_info, files, log) ==
    [raised |-> raised, changed |-> changed, build_info |-> build_info, files |-> files, log |-> log]

check_latest_timestamp(job_name, backfill_table_obj, storage, files) ==
    IF table_available(backfill_table_obj)
    THEN LET latest_timestamp == Max(DOMAIN backfill_table_obj)
             build == BuildInformation(backfill_table_obj[latest_timestamp])
         IN  IF ~check_folder(storage)
             THEN CheckResult(FALSE, FALSE, NoBuildInfo, files, <<>>)
             ELSE IF storage = "open_fail"
             THEN CheckResult(TRUE, FALSE, NoBuildInfo, files, <<>>)
             ELSE IF job_name \in DOMAIN files
             THEN IF same_signature(files[job_name], latest_timestamp)
                  THEN CheckResult(FALSE, FALSE, NoBuildInfo, files, <<>>)
                  ELSE CheckResult(FALSE, TRUE, build,
                                   write_file(files, job_name, latest_timestamp),
                                   <<LogLine("info", "Latest timestamp, Origin timestamp", job_name)>>)
             ELSE CheckResult(FALSE, TRUE, build,
                              write_file(files, job_name, latest_timestamp),
                              <<LogLine("info", "Latest timestamp, no origin timestamp", job_name)>>)
    ELSE CheckResult(FALSE, FALSE, NoBuildInfo, files,
                     <<LogLine("error", "Cannot retrieve the archive relational table", job_name)>>)

(***************************************************************************)
(* The reset of a job's record.  storage is what the file system does in   *)
(* this call: "ok", "folder_fail", "not_file" (something that is no file   *)
(* sits at the record's path) or "remove_fail" (os.remove raises).  The    *)
(* return value is kept as Python prints it.                               *)
(***************************************************************************)
ResetOutcomes(has_record) ==
    {"ok", "folder_fail"} \cup (IF has_record THEN {"remove_fail"} ELSE {"not_file"})

CleanResult(returned, files) == [returned |-> returned, files |-> files]

os_remove_kept(files, name) == files

os_remove(files, name) == DictDel(files, {name})

clean_timestamp_by_job_name(job_name, storage, files) ==
    IF ~check_folder(storage)
    THEN CleanResult("False", files)
    ELSE IF job_name \in DOMAIN files \/ storage = "not_file"
    THEN IF job_name \in DOMAIN files
         THEN IF storage = "remove_fail"
              THEN CleanResult("False", files)
              ELSE CleanResult("True", os_remove(files, job_name))
         ELSE CleanResult("False", files)
    ELSE CleanResult("True", files)

clean_md5_by_job_name(job_name, storage, files) ==
    IF ~check_folder(storage)
    THEN CleanResult("False", files)
    ELSE IF job_name \in DOMAIN files \/ storage = "not_file"
    THEN IF job_name \in DOMAIN files
         THEN IF storage = "remove_fail"
              THEN CleanResult("False", files)
              ELSE CleanResult("True", os_remove(files, job_name))
         ELSE CleanResult("False", files)
    ELSE CleanResult("True", files)

(***************************************************************************)
(* filter_cmd_config: the loop runs over the items of the deep copy; each  *)
(* pass converts the case list (from the item's own value) and then masks  *)
(* the whole config.  An empty config passes through no pass at all.       *)
(***************************************************************************)
filter_pass(ret_config, config_key, config_value) ==
    LET converted == IF config_key = CaseListKey
                     THEN DictSet(ret_config, config_key,
                                  IF isinstance_list(config_value) THEN config_value
                                  ELSE split_comma(config_value))
                     ELSE ret_config
    IN  mask_credential_value(converted)

RECURSIVE filter_loop(_, _, _)
filter_loop(ret_config, items, keys) ==
    IF keys = {} THEN ret_config
    ELSE LET config_key == CHOOSE k \in keys : TRUE
         IN  filter_loop(filter_pass(ret_config, config_key, items[config_key]), items, keys \ {config_key})

filter_cmd_config_unmasked(input_config) == input_config

filter_cmd_config(input_config) == filter_loop(input_config, input_config, DOMAIN input_config)

handle_specify_commands_once(cmd_name, cmd_configs, build_info) ==
    IF cmd_name \in SpecifyCommands /\ "DOWNLOAD_PKG_DIR_URL" \notin DOMAIN cmd_configs
    THEN DictSet(DictSet(cmd_configs, "DOWNLOAD_PKG_DIR_URL", PyStr(<<build_info.archive_url>>)),
                 "DOWNLOAD_REVISION", PyStr(<<build_info.revision>>))
    ELSE cmd_configs

handle_specify_commands(cmd_name, cmd_configs, build_info) ==
    IF cmd_name \in SpecifyCommands
    THEN DictSet(DictSet(cmd_configs, "DOWNLOAD_PKG_DIR_URL", PyStr(<<build_info.archive_url>>)),
                 "DOWNLOAD_REVISION", PyStr(<<build_info.revision>>))
    ELSE cmd_configs

(***************************************************************************)
(* The fan-out.  A uid is '{time}.{job}.{idx}': the prefix and the suffix. *)
(* fail_at = 0: every push_meta_task returns; fail_at = i: the i-th one    *)
(* raises.                                                                 *)
(***************************************************************************)
make_uid_prefix(now_string, job_name) == [time |-> now_string, job |-> job_name]

make_uid_from_zero(uid_prefix, idx) == [prefix |-> uid_prefix, suffix |-> idx]

make_uid(uid_prefix, idx) == [prefix |-> uid_prefix, suffix |-> idx + 1]

push_meta_task(topic, command_name, overwrite_cmd_configs, uid) ==
    [topic |-> topic, command_name |-> command_name,
     overwrite_cmd_configs |-> overwrite_cmd_configs, uid |-> uid]

create_status_file(job_id_fp, tag, percentage, content) ==
    [job_id |-> job_id_fp, tag |-> tag, percentage |-> percentage, content |-> content]

PublishedCountSkipsFailure(amount, fail_at) == IF fail_at = 0 THEN amount ELSE amount - 1

PublishedCount(amount, fail_at) == IF fail_at = 0 THEN amount ELSE fail_at - 1

queue_check_silent(queue_exists, job_name) == <<>>

queue_check(queue_exists, job_name) ==
    IF queue_exists THEN <<>>
    ELSE <<LogLine("error", "There is not Queue for Topic", job_name)>>

dispatch_always(changed) == TRUE

dispatch_if(changed) == changed

(***************************************************************************)
(* The order in which a run appends its status records and publishes: an   *)
(* effect names a record of status or a message of published by its index. *)
(***************************************************************************)
Effect(kind, at) == [kind |-> kind, at |-> at]

fan_out_order_status_last(published, completed) ==
    [i \in 1..published |-> Effect("publish", i)]
    \o <<Effect("status", 1)>>
    \o (IF completed THEN <<Effect("status", 2)>> ELSE <<>>)

fan_out_order(published, completed) ==
    <<Effect("status", 1)>>
    \o [i \in 1..published |-> Effect("publish", i)]
    \o (IF completed THEN <<Effect("status", 2)>> ELSE <<>>)

JobResult(raised, changed, build_info, files, config, published, status, effects, log) ==
    [raised |-> raised, changed |-> changed, build_info |-> build_info, files |-> files,
     overwrite_cmd_config |-> config, published |-> published, status |-> status,
     effects |-> effects, log |-> log]

job_pushing_meta_task(kwargs, backfill_table_obj, storage, now, queue_exists, fail_at, files) ==
    LET job_name == kwargs.job_name
        checked == check_latest_timestamp(job_name, backfill_table_obj, storage, files)
        checking == <<LogLine("info", "checking Job", job_name)>> \o checked.log
    IN  IF checked.raised
        THEN JobResult(TRUE, FALSE, checked.build_info, checked.files, kwargs.overwrite_cmd_config,
                       <<>>, <<>>, <<>>, checking)
        ELSE IF ~dispatch_if(checked.changed)
        THEN JobResult(FALSE, FALSE, checked.build_info, checked.files, kwargs.overwrite_cmd_config,
                       <<>>, <<>>, <<>>,
                       checking \o <<LogLine("info", "checking Job... False", job_name)>>)
        ELSE LET job_id == create_job_id_folder(job_name, now)
                 started == create_status_file(job_id, STATUS_TAG_PULSE_TRIGGER, 100, EmptyDict)
                 overwrite_cmd_config ==
                     handle_specify_commands(kwargs.cmd_name, kwargs.overwrite_cmd_config, checked.build_info)
                 uid_prefix == make_uid_prefix(now, job_name)
                 uid_list == [idx \in 1..kwargs.amount |-> make_uid(uid_prefix, idx - 1)]
                 published == [i \in 1..PublishedCount(kwargs.amount, fail_at) |->
                                  push_meta_task(kwargs.topic, kwargs.cmd_name, overwrite_cmd_config, uid_list[i])]
                 content == [job_name |-> job_name,
                             platform |-> kwargs.platform_build,
                             topic |-> kwargs.topic,
                             amount |-> kwargs.amount,
                             cmd |-> kwargs.cmd_name,
                             cmd_config |-> filter_cmd_config(overwrite_cmd_config),
                             task_uid_list |-> uid_list]
                 completed == create_status_file(job_id, STATUS_TAG_PULSE_TRIGGER, 900, content)
                 log == checking
                        \o <<LogLine("info", "checking Job... True", job_name)>>
                        \o queue_check(queue_exists, job_name)
                        \o <<LogConfigLine("info", "Pushing to Pulse", job_name, overwrite_cmd_config)>>
             IN  IF fail_at = 0
                 THEN JobResult(FALSE, checked.changed, checked.build_info, checked.files,
                                overwrite_cmd_config, published, <<started, completed>>,
                                fan_out_order(Len(published), TRUE), log)
                 ELSE JobResult(TRUE, checked.changed, checked.build_info, checked.files,
                                overwrite_cmd_config, published, <<started>>,
                                fan_out_order(Len(published), FALSE), log)

(***************************************************************************)
(* Hash mode.  fetch is what the archive server does in this call: the     *)
(* listing fails ("listing_error"), answers another status than 200        *)
(* ("non_200"), lists no file of the platform ("no_match"), the download   *)
(* of the matched file raises ("download_error"), or a hash is computed.   *)
(***************************************************************************)
FetchFailures == {"listing_error", "non_200", "no_match", "download_error"}

Fetched(hash) == [outcome |-> "ok", hash |-> hash]

FetchFailed(outcome) == [outcome |-> outcome, hash |-> 0]

get_latest_info_json_url_for_md5(fetch) ==
    IF fetch.outcome \in {"listing_error", "non_200", "no_match"} THEN NoneVal ELSE "url"

get_remote_md5_raises(url, fetch) == url = NoneVal \/ fetch.outcome = "download_error"

Md5Result(raised, changed, files) == [raised |-> raised, changed |-> changed, files |-> files]

check_latest_info_json_md5_changed(job_name, fetch, storage, files) ==
    IF ~check_folder(storage)
    THEN Md5Result(FALSE, FALSE, files)
    ELSE IF get_remote_md5_raises(get_latest_info_json_url_for_md5(fetch), fetch)
    THEN Md5Result(TRUE, FALSE, files)
    ELSE IF storage = "open_fail"
    THEN Md5Result(TRUE, FALSE, files)
    ELSE IF job_name \in DOMAIN files
    THEN IF files[job_name] = fetch.hash
         THEN Md5Result(FALSE, FALSE, files)
         ELSE Md5Result(FALSE, TRUE, write_file(files, job_name, fetch.hash))
    ELSE Md5Result(FALSE, TRUE, write_file(files, job_name, fetch.hash))

job_pushing_meta_task_md5(kwargs, fetch, storage, now, queue_exists, fail_at, files) ==
    LET job_name == kwargs.job_name
        checked == check_latest_info_json_md5_changed(job_name, fetch, storage, files)
    IN  IF checked.raised
        THEN JobResult(TRUE, FALSE, NoBuildInfo, checked.files, kwargs.overwrite_cmd_config,
                       <<>>, <<>>, <<>>, <<>>)
        ELSE IF ~checked.changed
        THEN JobResult(FALSE, FALSE, NoBuildInfo, checked.files, kwargs.overwrite_cmd_config,
                       <<>>, <<>>, <<>>, <<>>)
        ELSE LET uid_prefix == make_uid_prefix(now, job_name)
                 published == [i \in 1..PublishedCount(kwargs.amount, fail_at) |->
                                  push_meta_task(kwargs.topic, kwargs.cmd_name, kwargs.overwrite_cmd_config,
                                                 make_uid(uid_prefix, i - 1))]
                 log == queue_check(queue_exists, job_name)
                        \o <<LogConfigLine("info", "Pushing to Pulse", job_name, kwargs.overwrite_cmd_config)>>
             IN  JobResult(fail_at # 0, TRUE, NoBuildInfo, checked.files, kwargs.overwrite_cmd_config,
                           published, <<>>, [i \in 1..Len(published) |-> Effect("publish", i)], log)

(***************************************************************************)
(* The job configurations the model starts from: one job in every detail   *)
(* (enabled or not, each amount, a command with or without provenance, a   *)
(* config with or without a credential, each required key missing) beside  *)
(* a disabled one, and two plain enabled jobs side by side.                *)
(***************************************************************************)
Jobs == {"A", "B"}

Commands == {"run-hasal-on-specify-nightly", "download-latest-nightly"}

Secret == PyStr(<<"hunter2">>)

SecretConfig == ("password" :> Secret) @@ (CaseListKey :> PyStr(<<"case_a", "case_b">>))

ConfigChoices == {EmptyDict, SecretConfig}

FullDetail(enable, amount, cmd, configs) ==
    [enable |-> enable, topic |-> "win7", platform_build |-> "win64",
     cmd |-> cmd, amount |-> amount, configs |-> configs]

PlainDetail(enable, amount) == FullDetail(enable, amount, "download-latest-nightly", EmptyDict)

ValidDetails ==
    {FullDetail(e, a, c, cfg) : e \in BOOLEAN, a \in 1..MaxAmount, c \in Commands, cfg \in ConfigChoices}

InvalidDetails == {DictDel(PlainDetail(e, 1), {k}) : e \in BOOLEAN, k \in required_keys}

ProvenanceDetail == FullDetail(TRUE, 1, "download-specify-nightly", EmptyDict)

Platforms == {"win64", "linux64"}

PlatformDetails == {[PlainDetail(e, 1) EXCEPT !.platform_build = "linux64"] : e \in BOOLEAN}

JobDetails == ValidDetails \cup InvalidDetails \cup {ProvenanceDetail} \cup PlatformDetails

OneJobConfigs == {("A" :> d) @@ ("B" :> PlainDetail(FALSE, 1)) : d \in JobDetails}

TwoJobConfigs == {("A" :> PlainDetail(TRUE, a)) @@ ("B" :> PlainDetail(TRUE, 1)) : a \in 1..MaxAmount}

JobsConfigs == OneJobConfigs \cup TwoJobConfigs

ModesConfigs == {("A" :> PlainDetail(TRUE, a)) @@ ("B" :> PlainDetail(FALSE, 1)) : a \in 1..MaxAmount}

Timestamps == 1..MaxTimestamp

Hashes == 1..MaxHash

Nows == {"12:00:00.000001", "12:10:00.000002"}

TableEntry(timestamp) ==
    [archive_url |-> "https://archive/" \o ToString(timestamp), revision |-> "rev" \o ToString(timestamp)]

Tables == {[t \in 1..n |-> TableEntry(t)] : n \in 0..MaxTimestamp}

DispatchInputs(dispatches, amount) ==
    IF dispatches THEN Nows \X BOOLEAN \X (0..amount) ELSE {<<NoneVal, TRUE, 0>>}

(***************************************************************************)
(* The callback of the "mgt" consumer.  A body is a dictionary; a message  *)
(* object is "status" (json.dumps gives its text) or "object" (json.dumps  *)
(* raises).  The logger hands a record to every handler it holds; a        *)
(* handler that cannot write its file reports the error and raises         *)
(* nothing.                                                                *)
(***************************************************************************)
PULSE_MGT_OBJECT_KEY == "message"

MgtObjects == {"status", "object"}

MgtBodies ==
    {EmptyDict, [payload |-> EmptyDict]} \cup {[payload |-> [message |-> o]] : o \in MgtObjects}

json_serializable(obj) == obj # "object"

json_dumps(obj) == [format |-> "json", of |-> obj]

str_of(obj) == [format |-> "str", of |-> obj]

rotating_logger_info(handlers, emit_fails, msg) ==
    IF emit_fails THEN <<>>
    ELSE [h \in 1..handlers |-> [handler |-> h, levelname |-> "INFO", message |-> msg]]

GotResponse(acks, raised, lines) == [acks |-> acks, raised |-> raised, lines |-> lines]

got_response_ack_last(body, handlers, emit_fails) ==
    IF "payload" \notin DOMAIN body
    THEN GotResponse(0, TRUE, <<>>)
    ELSE LET msg_dict_obj == DictGet(body.payload, PULSE_MGT_OBJECT_KEY, NoneVal)
         IN  GotResponse(1, FALSE,
                         rotating_logger_info(handlers, emit_fails,
                                              IF json_serializable(msg_dict_obj)
                                              THEN json_dumps(msg_dict_obj)
                                              ELSE str_of(msg_dict_obj)))

got_response(body, handlers, emit_fails) ==
    LET acks == 1
    IN  IF "payload" \notin DOMAIN body
        THEN GotResponse(acks, TRUE, <<>>)
        ELSE LET msg_dict_obj == DictGet(body.payload, PULSE_MGT_OBJECT_KEY, NoneVal)
             IN  GotResponse(acks, FALSE,
                             rotating_logger_info(handlers, emit_fails,
                                                  IF json_serializable(msg_dict_obj)
                                                  THEN json_dumps(msg_dict_obj)
                                                  ELSE str_of(msg_dict_obj)))

(***************************************************************************)
(* State.                                                                  *)
(***************************************************************************)
VARIABLES
    pulse_username,     \* self.pulse_username
    pulse_password,     \* self.pulse_password
    init_pc,            \* where __init__ is: "new" (not called), "cleaning", "validated",
                        \* "raised" or "done" (it returned)
    queues_set,         \* clean_pulse_queues: the topics its loop has still to re-create
    recreated,          \* clean_pulse_queues: the re_create_pulse_queue calls made so far
    jobs_config,        \* self.jobs_config
    scheduler_running,  \* self.scheduler, started by __init__
    listeners,          \* the event listeners added to the scheduler
    timers,             \* the scheduler's jobs: id -> [func, max_instances, kwargs]
    instances,          \* id -> the invocations of the job that have not finished
    running,            \* the ids whose invocation a worker thread of the executor runs
    work_queue,         \* the submitted invocations that wait for a worker thread
    rotating_handlers,  \* the handlers added to the logger "RotatingLog" of the process
    run_state,          \* "new", "done" (run() returned) or "raised"
    invalid_logged,     \* the jobs run() logged as not valid
    timestamp_files,    \* the records of the .timestamp folder: job name -> timestamp
    md5_files,          \* the records of the .md5 folder: job name -> hash
    last                \* the last event: what was invoked, what it read and what it emitted

startup == <<pulse_username, pulse_password, init_pc, queues_set, recreated>>

pool == <<running, work_queue, rotating_handlers>>

vars == <<pulse_username, pulse_password, init_pc, queues_set, recreated, jobs_config, scheduler_running, listeners, timers, instances, running, work_queue,
          rotating_handlers, run_state, invalid_logged, timestamp_files, md5_files, last>>

NoFiles == [k \in {} |-> 0]

NoTimers == [k \in {} |-> 0]

NoResult == JobResult(FALSE, FALSE, NoBuildInfo, NoFiles, EmptyDict, <<>>, <<>>, <<>>, <<>>)

NoInputs == [observed |-> {}, table |-> <<>>, storage |-> "ok", record_before |-> NoFiles,
             overwrite_cmd_config |-> EmptyDict, now |-> NoneVal, queue_exists |-> TRUE,
             fail_at |-> 0]

JobInputs(observed, table, storage, record_before, config, now, queue_exists, fail_at) ==
    [observed |-> observed, table |-> table, storage |-> storage, record_before |-> record_before,
     overwrite_cmd_config |-> config, now |-> now, queue_exists |-> queue_exists,
     fail_at |-> fail_at]

NoMessage == [delivered |-> FALSE, body |-> EmptyDict, handlers |-> 0, emit_fails |-> FALSE,
              response |-> GotResponse(0, FALSE, <<>>)]

Message(body, handlers, emit_fails, response) ==
    [delivered |-> TRUE, body |-> body, handlers |-> handlers, emit_fails |-> emit_fails,
     response |-> response]

Event(type, id, func, inputs, result, listener_log) ==
    [type |-> type, id |-> id, func |-> func, inputs |-> inputs, result |-> result,
     returned |-> NoneVal, recreated |-> <<>>, message |-> NoMessage,
     listener_log |-> listener_log]

ResetEvent(func, job_name, storage, record_before, cleaned) ==
    [Event("returned", job_name, func,
           [NoInputs EXCEPT !.storage = storage, !.record_before = record_before],
           [NoResult EXCEPT !.files = cleaned.files], <<>>)
     EXCEPT !.returned = cleaned.returned]

RecordOf(files, job_name) == [k \in DOMAIN files \cap {job_name} |-> files[k]]

(***************************************************************************)
(* The scheduler.                                                          *)
(***************************************************************************)
MaxInstancesTwo == 1 + 1

MaxInstances == 1

_job_exception_listener_silent(id, exception) == <<>>

_job_exception_listener(id, exception) ==
    IF exception
    THEN <<LogLine("error", "Job crashed", id), LogLine("error", "traceback", id)>>
    ELSE <<>>

RECURSIVE dispatch_event(_, _, _)
dispatch_event(n, id, exception) ==
    IF n = 0 THEN <<>>
    ELSE _job_exception_listener(id, exception) \o dispatch_event(n - 1, id, exception)

Finished(id, func, inputs, result) ==
    Event(IF result.raised THEN "error" ELSE "executed", id, func, inputs, result,
          dispatch_event(listeners, id, result.raised))

InitWith(configs) ==
    /\ pulse_username = "trigger"
    /\ pulse_password = "secret"
    /\ init_pc = "done"
    /\ queues_set = {}
    /\ recreated = <<>>
    /\ jobs_config \in configs
    /\ scheduler_running = TRUE
    /\ listeners = 0
    /\ timers = NoTimers
    /\ instances = NoTimers
    /\ running = {}
    /\ work_queue = <<>>
    /\ rotating_handlers = 0
    /\ run_state = "new"
    /\ invalid_logged = {}
    /\ timestamp_files = NoFiles
    /\ md5_files = NoFiles
    /\ last = Event("none", NoneVal, NoneVal, NoInputs, NoResult, <<>>)

Init == InitWith(JobsConfigs)

get_platform_list_of_all_jobs(config_dict_obj) ==
    {"win64"} \cup
    {config_dict_obj[j][KEY_JOBS_PLATFORM_BUILD] :
        j \in {n \in DOMAIN config_dict_obj : KEY_JOBS_PLATFORM_BUILD \in DOMAIN config_dict_obj[n]}}

get_enabled_platform_list_from_trigger_jobs_config(config_dict_obj) ==
    {"win64"} \cup
    {config_dict_obj[j][KEY_JOBS_PLATFORM_BUILD] :
        j \in {n \in DOMAIN config_dict_obj :
                  /\ DictGet(config_dict_obj[n], KEY_JOBS_ENABLE, FALSE)
                  /\ KEY_JOBS_PLATFORM_BUILD \in DOMAIN config_dict_obj[n]}}

MgtTimer ==
    [func |-> "job_listen_response_from_agent", max_instances |-> MaxInstances,
     kwargs |-> [rotating_file_path |-> "rotating_mgt.log"]]

QueryTimer(platform_build) ==
    [func |-> "generate_archive_perfherder_relational_table", max_instances |-> MaxInstances,
     kwargs |-> [input_platform |-> platform_build]]

JobKwargs(job_name, job_detail) ==
    [job_name |-> job_name,
     topic |-> DictGet(job_detail, KEY_JOBS_TOPIC, NoneVal),
     amount |-> DictGet(job_detail, KEY_JOBS_AMOUNT, 1),
     platform_build |-> DictGet(job_detail, KEY_JOBS_PLATFORM_BUILD, NoneVal),
     cmd_name |-> DictGet(job_detail, KEY_JOBS_CMD, NoneVal),
     overwrite_cmd_config |-> DictGet(job_detail, KEY_JOBS_CONFIGS, EmptyDict)]

JobTimer(job_name, job_detail) ==
    [func |-> "job_pushing_meta_task", max_instances |-> MaxInstances,
     kwargs |-> JobKwargs(job_name, job_detail)]

RegisteredJobs(config) == {n \in DOMAIN config : DictGet(config[n], KEY_JOBS_ENABLE, FALSE)}

TimersOf(ids, platforms, config) ==
    [id \in ids |->
        IF id = MGT_ID THEN MgtTimer
        ELSE IF id \in DOMAIN config THEN JobTimer(id, config[id])
        ELSE QueryTimer(CHOOSE p \in platforms : QueryBackfillId(p) = id)]

(***************************************************************************)
(* add_job is called without replace_existing: on a running scheduler an   *)
(* id that the job store already holds makes it raise ConflictingIdError.  *)
(***************************************************************************)
add_job_conflicts(jobs, id) == id \in DOMAIN jobs

(***************************************************************************)
(* The body of run(): the listener, the "mgt" timer, the first query of    *)
(* every enabled platform (which may raise: nothing catches it), the query *)
(* timers and one timer per enabled job.                                   *)
(***************************************************************************)
run_body(skip_first_query, first_query_raises) ==
    /\ init_pc = "done"
    /\ listeners' = listeners + 1
    /\ IF add_job_conflicts(timers, MGT_ID)
       THEN /\ run_state' = "conflict"
            /\ UNCHANGED <<timers, instances, invalid_logged>>
       ELSE LET platforms == get_enabled_platform_list_from_trigger_jobs_config(jobs_config)
                ids == IF ~skip_first_query /\ first_query_raises
                       THEN {MGT_ID}
                       ELSE {MGT_ID} \cup {QueryBackfillId(p) : p \in platforms}
                            \cup RegisteredJobs(jobs_config)
            IN  /\ timers' = TimersOf(ids, platforms, jobs_config)
                /\ instances' = [id \in ids |-> 0]
                /\ run_state' = IF ~skip_first_query /\ first_query_raises THEN "raised" ELSE "done"
                /\ invalid_logged' = IF ~skip_first_query /\ first_query_raises THEN {}
                                     ELSE {n \in DOMAIN jobs_config : ~_validate_job_config(jobs_config[n])}
    /\ UNCHANGED <<startup, pool, jobs_config, scheduler_running, timestamp_files, md5_files, last>>

(***************************************************************************)
(* The program calls run() once on a TasksTrigger.                         *)
(***************************************************************************)
run(skip_first_query, first_query_raises) ==
    /\ run_state = "new"
    /\ run_body(skip_first_query, first_query_raises)

(***************************************************************************)
(* The executor of BackgroundScheduler() is a pool of worker threads of a  *)
(* fixed size (ten threads when nothing is configured; MaxWorkers here, so *)
(* that the timers can outnumber it).  A submitted invocation starts at    *)
(* once when a thread is                                                   *)
(* free and waits in the queue of the pool otherwise; a thread that ends   *)
(* an invocation takes the next one of the queue.  An invocation of        *)
(* job_listen_response_from_agent that starts adds one handler to the      *)
(* logger "RotatingLog".                                                   *)
(***************************************************************************)
MaxWorkers == 3

MaxHandlers == 2

addHandler(id) == IF timers[id].func = "job_listen_response_from_agent" THEN 1 ELSE 0

submit_job(id) ==
    /\ instances' = [instances EXCEPT ![id] = @ + 1]
    /\ IF Cardinality(running) < MaxWorkers
       THEN /\ running' = running \cup {id}
            /\ work_queue' = work_queue
            /\ rotating_handlers' = rotating_handlers + addHandler(id)
       ELSE /\ running' = running
            /\ work_queue' = Append(work_queue, id)
            /\ rotating_handlers' = rotating_handlers

worker_done(id) ==
    /\ instances' = [instances EXCEPT ![id] = @ - 1]
    /\ IF work_queue = <<>>
       THEN /\ running' = running \ {id}
            /\ work_queue' = work_queue
            /\ rotating_handlers' = rotating_handlers
       ELSE /\ running' = (running \ {id}) \cup {Head(work_queue)}
            /\ work_queue' = Tail(work_queue)
            /\ rotating_handlers' = rotating_handlers + addHandler(Head(work_queue))

(***************************************************************************)
(* A timer fires: the invocation is submitted unless max_instances         *)
(* invocations of the id have not finished; then it is skipped, and the    *)
(* event of the skip is not one the listener was added for.                *)
(***************************************************************************)
Fire(id) ==
    /\ scheduler_running
    /\ id \in DOMAIN timers
    /\ (instances[id] < timers[id].max_instances) => (rotating_handlers + addHandler(id) <= MaxHandlers)
    /\ IF instances[id] < timers[id].max_instances
       THEN /\ submit_job(id)
            /\ last' = Event("submitted", id, timers[id].func, NoInputs, NoResult, <<>>)
       ELSE /\ UNCHANGED <<instances, pool>>
            /\ last' = Event("max_instances", id, timers[id].func, NoInputs, NoResult, <<>>)
    /\ UNCHANGED <<startup, jobs_config, scheduler_running, listeners, timers, run_state,
                   invalid_logged, timestamp_files, md5_files>>

(***************************************************************************)
(* A running invocation of job_pushing_meta_task runs to its end.          *)
(***************************************************************************)
ExecJob(id) ==
    /\ id \in DOMAIN timers
    /\ timers[id].func = "job_pushing_meta_task"
    /\ id \in running
    /\ \E table \in Tables, storage \in StorageOutcomes :
          LET kwargs == timers[id].kwargs
              checked == check_latest_timestamp(kwargs.job_name, table, storage, timestamp_files)
          IN  \E given \in DispatchInputs(~checked.raised /\ dispatch_if(checked.changed), kwargs.amount) :
                 LET result == job_pushing_meta_task(kwargs, table, storage, given[1], given[2],
                                                     given[3], timestamp_files)
                     observed == IF table_available(table) THEN {Max(DOMAIN table)} ELSE {}
                 IN  /\ timestamp_files' = result.files
                     /\ timers' = [timers EXCEPT
                                      ![id].kwargs.overwrite_cmd_config = result.overwrite_cmd_config]
                     /\ last' = Finished(id, timers[id].func,
                                         JobInputs(observed, table, storage,
                                                   RecordOf(timestamp_files, kwargs.job_name),
                                                   kwargs.overwrite_cmd_config,
                                                   given[1], given[2], given[3]),
                                         result)
    /\ worker_done(id)
    /\ UNCHANGED <<startup, jobs_config, scheduler_running, listeners, run_state, invalid_logged, md5_files>>

(***************************************************************************)
(* A running query of the backfill table returns or raises.                *)
(***************************************************************************)
ExecQuery(id) ==
    /\ id \in DOMAIN timers
    /\ timers[id].func = "generate_archive_perfherder_relational_table"
    /\ id \in running
    /\ \E raises \in BOOLEAN :
          last' = Finished(id, timers[id].func, NoInputs,
                           [NoResult EXCEPT !.raised = raises])
    /\ worker_done(id)
    /\ UNCHANGED <<startup, jobs_config, scheduler_running, listeners, timers, run_state,
                   invalid_logged, timestamp_files, md5_files>>

(***************************************************************************)
(* job_listen_response_from_agent blocks in listen(); it ends only by      *)
(* raising (the consumer cannot connect, the connection drops).            *)
(***************************************************************************)
ListenRaises(id) ==
    /\ id \in DOMAIN timers
    /\ timers[id].func = "job_listen_response_from_agent"
    /\ id \in running
    /\ last' = Finished(id, timers[id].func, NoInputs, [NoResult EXCEPT !.raised = TRUE])
    /\ worker_done(id)
    /\ UNCHANGED <<startup, jobs_config, scheduler_running, listeners, timers, run_state,
                   invalid_logged, timestamp_files, md5_files>>

(***************************************************************************)
(* The consumer hands a message of the "mgt" topic to got_response while   *)
(* the invocation is in listen().  An exception of the callback leaves it  *)
(* inside listen(), which is not of this repository: the invocation ends   *)
(* by that exception, or listen() goes on.                                 *)
(***************************************************************************)
Deliver(id, body, emit_fails, propagates) ==
    /\ id \in DOMAIN timers
    /\ timers[id].func = "job_listen_response_from_agent"
    /\ id \in running
    /\ LET response == got_response(body, rotating_handlers, emit_fails)
           message == Message(body, rotating_handlers, emit_fails, response)
       IN  IF response.raised /\ propagates
           THEN /\ last' = [Finished(id, timers[id].func, NoInputs,
                                     [NoResult EXCEPT !.raised = TRUE])
                            EXCEPT !.message = message]
                /\ worker_done(id)
           ELSE /\ last' = [Event("message", id, timers[id].func, NoInputs, NoResult, <<>>)
                            EXCEPT !.message = message]
                /\ UNCHANGED <<instances, pool>>
    /\ UNCHANGED <<startup, jobs_config, scheduler_running, listeners, timers, run_state,
                   invalid_logged, timestamp_files, md5_files>>

(***************************************************************************)
(* clean_timestamp_by_job_name is a static method for maintenance tooling: *)
(* it is called from outside, at any time, for any job name.               *)
(***************************************************************************)
ResetTimestamp(job_name) ==
    /\ \E storage \in ResetOutcomes(job_name \in DOMAIN timestamp_files) :
          LET cleaned == clean_timestamp_by_job_name(job_name, storage, timestamp_files)
          IN  /\ timestamp_files' = cleaned.files
              /\ last' = ResetEvent("clean_timestamp_by_job_name", job_name, storage,
                                    RecordOf(timestamp_files, job_name), cleaned)
    /\ UNCHANGED <<startup, pool, jobs_config, scheduler_running, listeners, timers, instances,
                   run_state, invalid_logged, md5_files>>

TimerIds == {MGT_ID} \cup {QueryBackfillId(p) : p \in Platforms} \cup Jobs

(***************************************************************************)
(* The program with a broker connection that holds: an invocation of the   *)
(* listener stays in listen().  SpecListener adds the connection that      *)
(* fails and the messages of the agents.                                   *)
(***************************************************************************)
Next ==
    \/ \E skip_first_query \in BOOLEAN, first_query_raises \in BOOLEAN :
          run(skip_first_query, first_query_raises)
    \/ \E id \in TimerIds : Fire(id)
    \/ \E id \in TimerIds : ExecJob(id)
    \/ \E id \in TimerIds : ExecQuery(id)
    \/ \E job_name \in Jobs : ResetTimestamp(job_name)

Spec == Init /\ [][Next]_vars

(***************************************************************************)
(* A caller that calls run() again on the same TasksTrigger.               *)
(***************************************************************************)
MaxRunCalls == 2

RerunConfigs ==
    {("A" :> PlainDetail(TRUE, 1)) @@ ("B" :> PlainDetail(e, 1)) : e \in BOOLEAN}

run_again(skip_first_query, first_query_raises) ==
    /\ run_state # "new"
    /\ listeners < MaxRunCalls
    /\ run_body(skip_first_query, first_query_raises)

InitRerun == InitWith(RerunConfigs)

NextRerun ==
    \/ Next
    \/ \E skip_first_query \in BOOLEAN, first_query_raises \in BOOLEAN :
          run_again(skip_first_query, first_query_raises)

SpecRerun == InitRerun /\ [][NextRerun]_vars

(***************************************************************************)
(* The listener of the "mgt" topic with a connection that fails and with   *)
(* messages that arrive.                                                   *)
(***************************************************************************)
InitListener == InitWith(RerunConfigs)

NextListener ==
    \/ Next
    \/ \E id \in TimerIds : ListenRaises(id)
    \/ \E id \in TimerIds, body \in MgtBodies, emit_fails \in BOOLEAN, propagates \in BOOLEAN :
          Deliver(id, body, emit_fails, propagates)

SpecListener == InitListener /\ [][NextListener]_vars

(***************************************************************************)
(* Hash mode is wired to no timer ("Currently we do not use MD5"): the     *)
(* static method is called directly, for an enabled job and with the       *)
(* kwargs run() would give that job.                                       *)
(***************************************************************************)
Fetches == {FetchFailed(f) : f \in FetchFailures} \cup {Fetched(h) : h \in Hashes}

CallMd5(job_name) ==
    /\ job_name \in RegisteredJobs(jobs_config)
    /\ \E fetch \in Fetches, storage \in StorageOutcomes :
          LET kwargs == JobKwargs(job_name, jobs_config[job_name])
              checked == check_latest_info_json_md5_changed(job_name, fetch, storage, md5_files)
          IN  \E given \in DispatchInputs(checked.changed, kwargs.amount) :
                 LET result == job_pushing_meta_task_md5(kwargs, fetch, storage, given[1], given[2],
                                                         given[3], md5_files)
                     observed == IF fetch.outcome = "ok" THEN {fetch.hash} ELSE {}
                 IN  /\ md5_files' = result.files
                     /\ last' = Event(IF result.raised THEN "raised" ELSE "returned",
                                      job_name, "job_pushing_meta_task_md5",
                                      JobInputs(observed, <<>>, storage,
                                                RecordOf(md5_files, job_name),
                                                kwargs.overwrite_cmd_config,
                                                given[1], given[2], given[3]),
                                      result, <<>>)
    /\ UNCHANGED <<startup, pool, jobs_config, scheduler_running, listeners, timers, instances,
                   run_state, invalid_logged, timestamp_files>>

ResetMd5(job_name) ==
    /\ \E storage \in ResetOutcomes(job_name \in DOMAIN md5_files) :
          LET cleaned == clean_md5_by_job_name(job_name, storage, md5_files)
          IN  /\ md5_files' = cleaned.files
              /\ last' = ResetEvent("clean_md5_by_job_name", job_name, storage,
                                    RecordOf(md5_files, job_name), cleaned)
    /\ UNCHANGED <<startup, pool, jobs_config, scheduler_running, listeners, timers, instances,
                   run_state, invalid_logged, timestamp_files>>

InitModes == InitWith(ModesConfigs)

NextModes ==
    \/ Next
    \/ \E job_name \in Jobs : CallMd5(job_name)
    \/ \E job_name \in Jobs : ResetMd5(job_name)

SpecModes == InitModes /\ [][NextModes]_vars

(***************************************************************************)
(* Two enabled jobs that watch the same platform, with the hash-mode       *)
(* function called for one of them.                                        *)
(***************************************************************************)
PartitionConfigs == {("A" :> PlainDetail(TRUE, 1)) @@ ("B" :> PlainDetail(TRUE, 1))}

HashJobs == {"A"}

InitPartition == InitWith(PartitionConfigs)

NextPartition ==
    \/ \E skip_first_query \in BOOLEAN, first_query_raises \in BOOLEAN :
          run(skip_first_query, first_query_raises)
    \/ \E id \in Jobs : Fire(id)
    \/ \E id \in Jobs : ExecJob(id)
    \/ \E job_name \in Jobs : ResetTimestamp(job_name)
    \/ \E job_name \in HashJobs : CallMd5(job_name)
    \/ \E job_name \in Jobs : ResetMd5(job_name)

SpecPartition == InitPartition /\ [][NextPartition]_vars

(***************************************************************************)
(* Construction.  __init__ reads the configuration, validates the Pulse    *)
(* account, re-creates the queues when clean_at_begin is set (one pass of  *)
(* the loop of clean_pulse_queues per step, in the arbitrary order of a    *)
(* set) and then creates and starts the scheduler.  re_create_pulse_queue  *)
(* returns whether the queue was made again.                               *)
(***************************************************************************)
Usernames == {NoneVal, "", "trigger"}

Passwords == {NoneVal, "", "secret"}

Topics == {"win7", "win10"}

TopicDetail(enable, topic) == [PlainDetail(enable, 1) EXCEPT !.topic = topic]

StartupConfigs ==
    {("A" :> TopicDetail(TRUE, "win7")) @@ ("B" :> TopicDetail(e, t)) : e \in BOOLEAN, t \in Topics}
    \cup {("A" :> DictDel(PlainDetail(TRUE, 1), {KEY_JOBS_TOPIC})) @@ ("B" :> TopicDetail(FALSE, "win10")),
          ("A" :> TopicDetail(TRUE, "")) @@ ("B" :> TopicDetail(FALSE, "win10"))}

_validate_data_username_only(username, password) == username \notin {NoneVal, ""}

_validate_data(username, password) ==
    username \notin {NoneVal, ""} /\ password \notin {NoneVal, ""}

all_queues(config) == {DictGet(config[n], KEY_JOBS_TOPIC, "") : n \in DOMAIN config}

enabled_queues(config) ==
    {DictGet(config[n], KEY_JOBS_TOPIC, "") :
        n \in {j \in DOMAIN config : /\ DictGet(config[j], KEY_JOBS_ENABLE, FALSE)
                                     /\ DictGet(config[j], KEY_JOBS_TOPIC, "") # ""}}

Recreate(topic, ret) == [topic |-> topic, ret |-> ret]

clean_pulse_queues_log(calls) ==
    <<LogLine("info", "Cleaning and re-creating Pulse Queues", NoneVal),
      LogLine("info", "Enabled Pulse Queues", NoneVal)>>
    \o [i \in DOMAIN calls |->
           IF calls[i].ret THEN LogLine("info", "re-created", calls[i].topic)
           ELSE LogLine("error", "Queue has been deleted, but not be re-created", calls[i].topic)]
    \o <<LogLine("info", "Clean and re-create Pulse Queues done", NoneVal)>>

InitEvent(type, calls, log) ==
    [Event(type, NoneVal, "__init__", NoInputs,
           [NoResult EXCEPT !.raised = (type = "raised"), !.log = log], <<>>)
     EXCEPT !.recreated = calls]

__init__(clean_at_begin) ==
    /\ init_pc = "new"
    /\ IF ~_validate_data(pulse_username, pulse_password)
       THEN /\ init_pc' = "raised"
            /\ queues_set' = queues_set
            /\ last' = InitEvent("raised", <<>>, <<>>)
       ELSE IF clean_at_begin
       THEN /\ init_pc' = "cleaning"
            /\ queues_set' = enabled_queues(jobs_config)
            /\ last' = last
       ELSE /\ init_pc' = "validated"
            /\ queues_set' = queues_set
            /\ last' = last
    /\ UNCHANGED <<pulse_username, pulse_password, recreated, pool, jobs_config,
                   scheduler_running, listeners, timers, instances, run_state, invalid_logged,
                   timestamp_files, md5_files>>

re_create_pulse_queue(topic, ret) ==
    /\ init_pc = "cleaning"
    /\ topic \in queues_set
    /\ queues_set' = queues_set \ {topic}
    /\ recreated' = Append(recreated, Recreate(topic, ret))
    /\ UNCHANGED <<pulse_username, pulse_password, init_pc, pool, jobs_config,
                   scheduler_running, listeners, timers, instances, run_state, invalid_logged,
                   timestamp_files, md5_files, last>>

scheduler_start_at_once(pc, pending) == pc \in {"validated", "cleaning"}

scheduler_start_enabled(pc, pending) == pc = "validated" \/ (pc = "cleaning" /\ pending = {})

scheduler_start ==
    /\ scheduler_start_enabled(init_pc, queues_set)
    /\ init_pc' = "done"
    /\ scheduler_running' = TRUE
    /\ recreated' = <<>>
    /\ last' = InitEvent("returned", recreated,
                         IF init_pc = "cleaning" THEN clean_pulse_queues_log(recreated) ELSE <<>>)
    /\ UNCHANGED <<pulse_username, pulse_password, queues_set, pool, jobs_config, listeners,
                   timers, instances, run_state, invalid_logged, timestamp_files, md5_files>>

InitStartup ==
    /\ pulse_username \in Usernames
    /\ pulse_password \in Passwords
    /\ init_pc = "new"
    /\ queues_set = {}
    /\ recreated = <<>>
    /\ jobs_config \in StartupConfigs
    /\ scheduler_running = FALSE
    /\ listeners = 0
    /\ timers = NoTimers
    /\ instances = NoTimers
    /\ running = {}
    /\ work_queue = <<>>
    /\ rotating_handlers = 0
    /\ run_state = "new"
    /\ invalid_logged = {}
    /\ timestamp_files = NoFiles
    /\ md5_files = NoFiles
    /\ last = Event("none", NoneVal, NoneVal, NoInputs, NoResult, <<>>)

NextStartup ==
    \/ Next
    \/ \E clean_at_begin \in BOOLEAN : __init__(clean_at_begin)
    \/ \E topic \in Topics, ret \in BOOLEAN : re_create_pulse_queue(topic, ret)
    \/ scheduler_start

SpecStartup == InitStartup /\ [][NextStartup]_vars

(***************************************************************************)
(* What the claims speak of.  A run is a finished invocation of            *)
(* job_pushing_meta_task: last holds what it read and what it emitted.     *)
(***************************************************************************)
IsDispatchRun == last.type \in {"executed", "error"} /\ last.func = "job_pushing_meta_task"

IsValidJobRun == IsDispatchRun /\ _validate_job_config(jobs_config[last.id])

IsMd5Call == last.type \in {"returned", "raised"} /\ last.func = "job_pushing_meta_task_md5"

HadRecord == DOMAIN last.inputs.record_before # {}

Observed == last.inputs.observed # {}

Latest == Max(last.inputs.observed)

TableUpTo(latest) == [t \in 1..latest |-> TableEntry(t)]

NextCheckChanged == check_latest_timestamp(last.id, TableUpTo(Latest), "ok", timestamp_files).changed

CompleteFanOut == IsDispatchRun /\ last.result.changed /\ ~last.result.raised

Skipped == last.type = "max_instances"

FirstCheckRun == IsDispatchRun /\ ~HadRecord /\ Observed /\ last.inputs.storage = "ok"

FetchFailedRun == (IsDispatchRun \/ IsMd5Call) /\ ~Observed

RecordNow == IF IsMd5Call THEN RecordOf(md5_files, last.id) ELSE RecordOf(timestamp_files, last.id)

StatusContents == {last.result.status[i].content : i \in DOMAIN last.result.status} \ {EmptyDict}

Crashed == last.type = "error"

CrashLogged == \E i \in DOMAIN last.listener_log :
                  last.listener_log[i] = LogLine("error", "Job crashed", last.id)

DispatchTimers == {id \in DOMAIN timers : timers[id].func = "job_pushing_meta_task"}

\* C1: a check that reads a record equal to the latest timestamp of the feed returns
\* changed = false, leaves the record as it was, publishes nothing and appends no status
\* record; and after any check that read the feed, a second check of the same latest
\* timestamp returns changed = false, so that the two make at most one fan-out.
Idempotence ==
    /\ (/\ IsDispatchRun
        /\ last.inputs.storage = "ok"
        /\ Observed
        /\ HadRecord
        /\ last.inputs.record_before[last.id] = Latest)
       => /\ ~last.result.changed
          /\ ~last.result.raised
          /\ RecordOf(timestamp_files, last.id) = last.inputs.record_before
          /\ last.result.published = <<>>
          /\ last.result.status = <<>>
    /\ (IsDispatchRun /\ last.inputs.storage = "ok" /\ Observed) => ~NextCheckChanged

IdempotenceWitness ==
    /\ IsDispatchRun
    /\ last.type = "executed"
    /\ last.inputs.storage = "ok"
    /\ Observed
    /\ HadRecord
    /\ last.inputs.record_before[last.id] = Latest

\* C2: after a run (of a job with every required key) that detected a change and whose
\* fan-out was cut by a publish that raised, the next check of the same latest timestamp
\* detects the change again.
ChangeNeverLost ==
    (IsValidJobRun /\ last.result.changed /\ last.result.raised) => NextCheckChanged

\* C3: a run that detects a change and meets no publish failure publishes exactly amount
\* messages to the job's topic; their uids are pairwise distinct, share the prefix made of
\* the run's time and the job's name, and carry the suffixes 1..amount in publish order.
FanOutCount ==
    CompleteFanOut =>
        LET kwargs == timers[last.id].kwargs
            published == last.result.published
        IN  /\ Len(published) = kwargs.amount
            /\ \A i \in 1..Len(published) :
                  /\ published[i].topic = kwargs.topic
                  /\ published[i].uid.prefix.time = last.inputs.now
                  /\ published[i].uid.prefix.job = kwargs.job_name
                  /\ published[i].uid.suffix = i
            /\ \A i, j \in 1..Len(published) : i # j => published[i].uid # published[j].uid

FanOutCountWitness == CompleteFanOut /\ timers[last.id].kwargs.amount = MaxAmount

\* C4: no timer id ever has more than one invocation running; a timer that fires while
\* its previous invocation runs is skipped: the step starts no invocation, touches no
\* record, and its event is logged by no listener (it is no job error).
Exclusivity ==
    /\ [](\A id \in DOMAIN instances : instances[id] <= 1)
    /\ [](Skipped => instances[last.id] = 1 /\ last.listener_log = <<>> /\ ~last.result.raised)
    /\ [][(last'.type = "max_instances" /\ last' # last)
            => /\ instances' = instances
               /\ timers' = timers
               /\ timestamp_files' = timestamp_files]_vars

ExclusivityWitness == Skipped /\ last.func = "job_pushing_meta_task"

\* C5 as stated: a check for a job with no stored record returns changed = true and
\* stores a record.
FirstCheckAlwaysChanges ==
    (IsValidJobRun /\ ~HadRecord) => (last.result.changed /\ last.id \in DOMAIN timestamp_files)

\* C5 as amended: a check for a job with no stored record, whose fetch returns a non-empty
\* mapping and whose storage works, returns changed = true and stores the latest
\* timestamp, and the check that follows on the same latest timestamp returns
\* changed = false.
FirstCheckChangesWhenFetched ==
    FirstCheckRun =>
        /\ last.result.changed
        /\ last.id \in DOMAIN timestamp_files
        /\ timestamp_files[last.id] = Latest
        /\ ~NextCheckChanged

\* C6: a run (in either mode) whose fetch fails or returns nothing leaves the job's
\* record as it was before and publishes nothing.
FailClosedOnFetchError ==
    FetchFailedRun => (RecordNow = last.inputs.record_before /\ last.result.published = <<>>)

FailClosedWitness == FetchFailedRun /\ IsDispatchRun /\ HadRecord /\ last.inputs.storage = "ok"

\* C7: in every status record with content that a run appends, each credential-bearing
\* key of the job's config holds the redaction marker and not the original value.
MaskingInStatus ==
    IsDispatchRun =>
        \A content \in StatusContents :
            \A k \in CredentialKeys \cap DOMAIN timers[last.id].kwargs.overwrite_cmd_config :
                /\ k \in DOMAIN content.cmd_config
                /\ content.cmd_config[k] = RedactionMarker
                /\ content.cmd_config[k] # timers[last.id].kwargs.overwrite_cmd_config[k]

MaskingInStatusWitness ==
    /\ IsDispatchRun
    /\ StatusContents # {}
    /\ CredentialKeys \cap DOMAIN timers[last.id].kwargs.overwrite_cmd_config # {}

\* C8: no log line of a run (of a job with every required key) prints the original value of a credential-bearing key.
MaskingBeforeLogging ==
    IsValidJobRun =>
        \A i \in DOMAIN last.result.log :
            \A k \in CredentialKeys \cap DOMAIN last.result.log[i].cmd_config :
                last.result.log[i].cmd_config[k] = RedactionMarker

\* C9: an invocation of any timer callback that raises is logged by the listener; after
\* it the scheduler runs, the job's timer is registered and free to start again, every
\* timer can fire, and the step changed no timer and no other job's invocations.
FailureIsolation ==
    /\ [](Crashed =>
            /\ CrashLogged
            /\ scheduler_running
            /\ last.id \in DOMAIN timers
            /\ instances[last.id] < timers[last.id].max_instances
            /\ \A id \in DOMAIN timers : ENABLED Fire(id))
    /\ [][(last'.type = "error" /\ last' # last)
            => /\ scheduler_running'
               /\ DOMAIN timers' = DOMAIN timers
               /\ \A id \in DOMAIN instances \ {last'.id} : instances'[id] = instances[id]]_vars

FailureIsolationWitness ==
    Crashed /\ last.func = "job_pushing_meta_task" /\ last.result.published # <<>>

\* C10: after run() the dispatch timers are exactly the jobs that are enabled and hold
\* all of topic, platform_build and cmd.
JobRegistration ==
    run_state = "done" =>
        DispatchTimers = {n \in DOMAIN jobs_config :
                             /\ DictGet(jobs_config[n], KEY_JOBS_ENABLE, FALSE)
                             /\ required_keys \subseteq DOMAIN jobs_config[n]}

PositionsOf(effects, kind, at) == {i \in DOMAIN effects : effects[i] = Effect(kind, at)}

StatusWith(percentage) ==
    {i \in DOMAIN last.result.status : last.result.status[i].percentage = percentage}

\* C11: in every run the STARTED record (100) is appended before the first publish and the
\* COMPLETED record (900) after all amount publishes; there is no COMPLETED without an
\* earlier STARTED, at most one of each under the run's id, and the uid list of COMPLETED
\* is the list of the uids published, in order.
StatusOrdering ==
    IsDispatchRun =>
        LET r == last.result
            run_id == create_job_id_folder(last.id, last.inputs.now)
        IN  /\ Cardinality(StatusWith(100)) <= 1
            /\ Cardinality(StatusWith(900)) <= 1
            /\ \A i \in DOMAIN r.status :
                  /\ r.status[i].job_id = run_id
                  /\ r.status[i].percentage \in {100, 900}
                  /\ Cardinality(PositionsOf(r.effects, "status", i)) = 1
            /\ \A i \in DOMAIN r.published :
                  /\ Cardinality(PositionsOf(r.effects, "publish", i)) = 1
                  /\ \E s \in StatusWith(100) :
                        \A p \in PositionsOf(r.effects, "publish", i) :
                            \A q \in PositionsOf(r.effects, "status", s) : q < p
            /\ \A c \in StatusWith(900) :
                  /\ \E s \in StatusWith(100) :
                        \A p \in PositionsOf(r.effects, "status", c) :
                            \A q \in PositionsOf(r.effects, "status", s) : q < p
                  /\ Len(r.published) = timers[last.id].kwargs.amount
                  /\ \A i \in DOMAIN r.published :
                        \A p \in PositionsOf(r.effects, "status", c) :
                            \A q \in PositionsOf(r.effects, "publish", i) : q < p
                  /\ r.status[c].content.task_uid_list = [i \in DOMAIN r.published |-> r.published[i].uid]

StatusOrderingWitness ==
    /\ IsDispatchRun
    /\ StatusWith(900) # {}
    /\ Len(last.result.published) = MaxAmount
    /\ Len(last.result.effects) = MaxAmount + 2

ProvenanceRun ==
    /\ IsDispatchRun
    /\ last.result.published # <<>>
    /\ timers[last.id].kwargs.cmd_name \in {"run-hasal-on-specify-nightly", "download-specify-nightly"}

\* C12: every message a run publishes for a command of the provenance set carries the
\* archive URL and the revision of the BuildInfo that the run's own check returned, whatever
\* build an earlier fan-out of the job wrote into the config; for any other command the
\* published config is the configs of the job's definition, unmodified.
ProvenanceEnrichment ==
    (IsDispatchRun /\ last.result.published # <<>>) =>
        \A i \in DOMAIN last.result.published :
            LET config == last.result.published[i].overwrite_cmd_configs
            IN  IF ProvenanceRun
                THEN /\ "DOWNLOAD_PKG_DIR_URL" \in DOMAIN config
                     /\ "DOWNLOAD_REVISION" \in DOMAIN config
                     /\ config["DOWNLOAD_PKG_DIR_URL"] = PyStr(<<last.result.build_info.archive_url>>)
                     /\ config["DOWNLOAD_REVISION"] = PyStr(<<last.result.build_info.revision>>)
                     /\ last.result.build_info # NoBuildInfo
                     /\ DictDel(config, {"DOWNLOAD_PKG_DIR_URL", "DOWNLOAD_REVISION"})
                            = DictGet(jobs_config[last.id], KEY_JOBS_CONFIGS, EmptyDict)
                ELSE config = DictGet(jobs_config[last.id], KEY_JOBS_CONFIGS, EmptyDict)

ProvenanceEnrichmentWitness ==
    /\ ProvenanceRun
    /\ "DOWNLOAD_PKG_DIR_URL" \in DOMAIN last.inputs.overwrite_cmd_config
    /\ last.inputs.overwrite_cmd_config["DOWNLOAD_PKG_DIR_URL"]
          # PyStr(<<last.result.build_info.archive_url>>)

FedRun == IsDispatchRun /\ DOMAIN last.inputs.table # {}

\* C13: a check of a non-empty mapping compares the record with the greatest key: with
\* working storage and a record it reports a change exactly when the record differs from
\* that key; whenever it reports a change the job's record is that key afterwards and the
\* BuildInfo returned is made of the mapping's entry for it; and the BuildInfo returned is
\* not null exactly when a change is reported.
OrderedEventDetection ==
    FedRun =>
        LET table == last.inputs.table
            r == last.result
        IN  \E latest \in DOMAIN table :
               /\ \A t \in DOMAIN table : t <= latest
               /\ (last.inputs.storage = "ok" /\ HadRecord)
                     => (r.changed <=> last.inputs.record_before[last.id] # latest)
               /\ r.changed =>
                     /\ last.id \in DOMAIN timestamp_files
                     /\ timestamp_files[last.id] = latest
                     /\ r.build_info.archive_url = table[latest].archive_url
                     /\ r.build_info.revision = table[latest].revision
               /\ (r.build_info # NoBuildInfo) <=> r.changed

OrderedEventDetectionWitness ==
    /\ FedRun
    /\ last.result.changed
    /\ HadRecord
    /\ Cardinality(DOMAIN last.inputs.table) = MaxTimestamp

StorageFailedRun ==
    /\ IsValidJobRun \/ IsMd5Call
    /\ last.inputs.storage # "ok"
    /\ IsDispatchRun => DOMAIN last.inputs.table # {}

\* C14: a run (of a job with every required key, in either mode) whose check meets a
\* signature folder that cannot be made or a record that cannot be opened does not raise,
\* reports no change, publishes nothing and leaves the job's record as it was.
StorageFailureFailsClosed ==
    StorageFailedRun =>
        /\ ~last.result.raised
        /\ ~last.result.changed
        /\ last.result.published = <<>>
        /\ RecordNow = last.inputs.record_before

IsTimestampReset == last.type = "returned" /\ last.func = "clean_timestamp_by_job_name"

IsMd5Reset == last.type = "returned" /\ last.func = "clean_md5_by_job_name"

IsReset == IsTimestampReset \/ IsMd5Reset

ResetWorked == IsReset /\ last.inputs.storage = "ok"

FilesNow == IF IsMd5Reset THEN md5_files ELSE timestamp_files

\* C15 as stated: a reset of a job's record reports success and leaves the job without a
\* record.
ResetAlwaysSucceeds ==
    IsReset => (last.returned = "True" /\ last.id \notin DOMAIN FilesNow)

\* C15 as amended: a reset whose storage works reports success, leaves the job without a
\* record and every other record as it was (so it changes nothing when there was none); a
\* second reset then reports success and changes nothing; and the job's next check with a
\* successful fetch and working storage reports a change and stores the record again.
ResetIdempotent ==
    /\ [](ResetWorked =>
            /\ last.returned = "True"
            /\ last.id \notin DOMAIN FilesNow
            /\ IsTimestampReset =>
                  /\ clean_timestamp_by_job_name(last.id, "ok", timestamp_files)
                        = CleanResult("True", timestamp_files)
                  /\ \A latest \in Timestamps :
                        LET checked == check_latest_timestamp(last.id, TableUpTo(latest), "ok",
                                                              timestamp_files)
                        IN  /\ checked.changed
                            /\ RecordOf(checked.files, last.id) = (last.id :> latest)
            /\ IsMd5Reset =>
                  /\ clean_md5_by_job_name(last.id, "ok", md5_files) = CleanResult("True", md5_files)
                  /\ \A hash \in Hashes :
                        LET checked == check_latest_info_json_md5_changed(last.id, Fetched(hash), "ok",
                                                                          md5_files)
                        IN  /\ checked.changed
                            /\ RecordOf(checked.files, last.id) = (last.id :> hash))
    /\ [][(last'.type = "returned" /\ last'.inputs.storage = "ok")
            => /\ last'.func = "clean_timestamp_by_job_name"
                    => /\ timestamp_files' = DictDel(timestamp_files, {last'.id})
                       /\ md5_files' = md5_files
               /\ last'.func = "clean_md5_by_job_name"
                    => /\ md5_files' = DictDel(md5_files, {last'.id})
                       /\ timestamp_files' = timestamp_files]_vars

ResetIdempotentWitness == ResetWorked /\ IsTimestampReset /\ HadRecord

Constructed == last.func = "__init__" /\ last.type = "returned"

Cleaned ==
    /\ Constructed
    /\ \E i \in DOMAIN last.result.log :
          last.result.log[i] = LogLine("info", "Cleaning and re-creating Pulse Queues", NoneVal)

TopicsOf(calls) == {calls[i].topic : i \in DOMAIN calls}

ExpectedTopics ==
    {t \in Topics : \E n \in DOMAIN jobs_config :
                        /\ KEY_JOBS_ENABLE \in DOMAIN jobs_config[n]
                        /\ jobs_config[n][KEY_JOBS_ENABLE]
                        /\ KEY_JOBS_TOPIC \in DOMAIN jobs_config[n]
                        /\ jobs_config[n][KEY_JOBS_TOPIC] = t}

NothingScheduled ==
    /\ ~scheduler_running
    /\ timers = NoTimers
    /\ instances = NoTimers
    /\ run_state = "new"

\* C16 as stated: every construction reconciles the queues: when __init__ has returned,
\* every topic of an enabled job has been re-created.
ReconciliationAlwaysRuns ==
    Constructed => TopicsOf(last.recreated) = ExpectedTopics

\* C16 as amended: queues are re-created only inside __init__ and only when clean_at_begin
\* is set; then the loop is entered once, no scheduler runs, no timer is registered and no
\* invocation exists while it runs, and the scheduler starts only when every topic of an
\* enabled job has been re-created.
ReconciliationBeforeScheduler ==
    /\ [](init_pc # "done" => NothingScheduled)
    /\ []((recreated # <<>> \/ queues_set # {}) => init_pc = "cleaning")
    /\ [][recreated' # recreated /\ recreated' # <<>> => (init_pc = "cleaning" /\ NothingScheduled)]_vars
    /\ [][init_pc' = "cleaning" => init_pc \in {"new", "cleaning"}]_vars
    /\ [][(scheduler_running' /\ ~scheduler_running /\ init_pc = "cleaning")
            => /\ queues_set = {}
               /\ TopicsOf(recreated) = ExpectedTopics
               /\ last'.recreated = recreated]_vars

ReconciliationWitness ==
    init_pc = "cleaning" /\ Len(recreated) = 1 /\ queues_set # {}

\* C17: clean_pulse_queues re-creates each topic of an enabled job once and no other
\* topic: while it runs, the topics done and the topics to do are disjoint and make up
\* that set; when it has returned the calls are one per topic of the set, every call that
\* failed is logged as an error, and construction went on to start the scheduler.
ReconciliationCoverage ==
    /\ init_pc = "cleaning" =>
          /\ TopicsOf(recreated) \cup queues_set = ExpectedTopics
          /\ TopicsOf(recreated) \cap queues_set = {}
          /\ Cardinality(TopicsOf(recreated)) = Len(recreated)
    /\ Cleaned =>
          /\ TopicsOf(last.recreated) = ExpectedTopics
          /\ Len(last.recreated) = Cardinality(ExpectedTopics)
          /\ \A i \in DOMAIN last.recreated :
                ~last.recreated[i].ret =>
                    \E j \in DOMAIN last.result.log :
                        /\ last.result.log[j].level = "error"
                        /\ last.result.log[j].who = last.recreated[i].topic
          /\ ~last.result.raised
          /\ init_pc = "done"

ReconciliationCoverageWitness ==
    /\ Cleaned
    /\ Len(last.recreated) = 2
    /\ ~last.recreated[1].ret
    /\ last.recreated[2].ret

BadCredentials == pulse_username \in {NoneVal, ""} \/ pulse_password \in {NoneVal, ""}

\* C18: with a Pulse username or password that is absent or empty, __init__ never gets
\* past its validation: it has not been called or has raised, no queue was re-created, no
\* scheduler runs, no timer is registered and nothing was published.
MissingCredentialsFatal ==
    BadCredentials =>
        /\ init_pc \in {"new", "raised"}
        /\ NothingScheduled
        /\ recreated = <<>>
        /\ queues_set = {}
        /\ last.recreated = <<>>
        /\ last.result.published = <<>>

MissingCredentialsWitness ==
    /\ init_pc = "raised"
    /\ pulse_username = "trigger"
    /\ pulse_password = ""
    /\ last.type = "raised"

MissingQueueRun == IsDispatchRun /\ last.result.changed /\ ~last.inputs.queue_exists

WithQueue ==
    job_pushing_meta_task(
        [timers[last.id].kwargs EXCEPT !.overwrite_cmd_config = last.inputs.overwrite_cmd_config],
        last.inputs.table, last.inputs.storage, last.inputs.now, TRUE, last.inputs.fail_at,
        last.inputs.record_before)

\* C19: a run that detects a change and is told that the topic has no queue logs an error
\* and publishes the same messages with the same uids, appends the same status records in
\* the same order and ends the same way as the run with the same inputs whose topic has a
\* queue; when no publish fails these are amount messages and both status records.
MissingTopicNotFatal ==
    MissingQueueRun =>
        /\ \E i \in DOMAIN last.result.log :
              /\ last.result.log[i].level = "error"
              /\ last.result.log[i].msg = "There is not Queue for Topic"
        /\ last.result.published = WithQueue.published
        /\ last.result.status = WithQueue.status
        /\ last.result.effects = WithQueue.effects
        /\ last.result.raised = WithQueue.raised
        /\ last.inputs.fail_at = 0 =>
              /\ Len(last.result.published) = timers[last.id].kwargs.amount
              /\ Len(last.result.status) = 2
              /\ ~last.result.raised

MissingTopicWitness ==
    /\ MissingQueueRun
    /\ last.type = "executed"
    /\ Len(last.result.published) = MaxAmount

RefreshTimers ==
    {id \in DOMAIN timers : timers[id].func = "generate_archive_perfherder_relational_table"}

RefreshedPlatforms == {timers[id].kwargs.input_platform : id \in RefreshTimers}

ListenerTimers == {id \in DOMAIN timers : timers[id].func = "job_listen_response_from_agent"}

ReferencedPlatforms ==
    {p \in Platforms : \E n \in DOMAIN jobs_config :
                           /\ KEY_JOBS_ENABLE \in DOMAIN jobs_config[n]
                           /\ jobs_config[n][KEY_JOBS_ENABLE]
                           /\ KEY_JOBS_PLATFORM_BUILD \in DOMAIN jobs_config[n]
                           /\ jobs_config[n][KEY_JOBS_PLATFORM_BUILD] = p}

\* C20 as stated: after run() the refresh timers are one per platform that an enabled job
\* references and none for any other platform, and there is one listener timer.
HousekeepingTimers ==
    run_state = "done" =>
        /\ RefreshedPlatforms = ReferencedPlatforms
        /\ Cardinality(RefreshTimers) = Cardinality(ReferencedPlatforms)
        /\ Cardinality(ListenerTimers) = 1

\* C20 as amended: after run() the refresh timers are one per platform of the set made of
\* "win64" and of the platforms that enabled jobs reference, each under the id derived
\* from its platform, none for any other platform, and there is one listener timer.
HousekeepingTimersWithDefault ==
    run_state = "done" =>
        /\ RefreshedPlatforms = {"win64"} \cup ReferencedPlatforms
        /\ Cardinality(RefreshTimers) = Cardinality({"win64"} \cup ReferencedPlatforms)
        /\ \A id \in RefreshTimers : id = QueryBackfillId(timers[id].kwargs.input_platform)
        /\ ListenerTimers = {MGT_ID}

HousekeepingTimersWitness ==
    /\ run_state = "done"
    /\ ReferencedPlatforms = {"linux64"}
    /\ Cardinality(RefreshTimers) = 2

AllTimerIds ==
    {MGT_ID}
    \cup {QueryBackfillId(p) : p \in get_enabled_platform_list_from_trigger_jobs_config(jobs_config)}
    \cup RegisteredJobs(jobs_config)

FirstQueryRaised == run_state = "raised"

\* C21: a call of run() whose first query of the backfill table raised for some platform
\* still registers the timer of the listener, the refresh timer of every platform and the
\* timer of every enabled job.
InitialRefreshNotFatal == FirstQueryRaised => DOMAIN timers = AllTimerIds

SecondRun == listeners > 1 /\ DOMAIN timers = AllTimerIds

\* C22: a second call of run() on a TasksTrigger whose first call registered every timer
\* completes without error and leaves the timers of the first call, one per id.
ReRegistrationIdempotent ==
    SecondRun => /\ run_state = "done"
                 /\ DOMAIN timers = AllTimerIds

IsMessage == last.message.delivered

\* C23: every message the consumer hands to the callback is acknowledged exactly once:
\* also a message with no payload (the callback raises), one whose object json.dumps
\* cannot serialise, and one whose log record no handler could write.
ListenerAcknowledgment == IsMessage => last.message.response.acks = 1

ListenerAcknowledgmentWitness ==
    /\ IsMessage
    /\ last.message.response.raised
    /\ last.type = "error"
    /\ "payload" \notin DOMAIN last.message.body

\* C29: each message the listener receives, whose object is found and whose handlers can
\* write, is written to the rotating log exactly once, however many invocations of
\* job_listen_response_from_agent the process has started.
RotatingLogOnce ==
    (IsMessage /\ ~last.message.response.raised /\ ~last.message.emit_fails)
        => Len(last.message.response.lines) = 1

WorkerBusy(id) == instances[id] > 0

HashFanOut == IsMd5Call /\ last.result.changed /\ ~last.result.raised

\* C24: a call in hash mode that finds no record or another hash stores the new hash,
\* publishes amount messages under the uids prefix.1 to prefix.amount and appends one
\* STARTED record before the first publish and one COMPLETED record after the last; a
\* call that finds the same hash publishes nothing and appends no record.
HashModeLifecycle ==
    /\ HashFanOut =>
          /\ RecordNow = (last.id :> Max(last.inputs.observed))
          /\ Len(last.result.published) = jobs_config[last.id][KEY_JOBS_AMOUNT]
          /\ \A i \in DOMAIN last.result.published :
                last.result.published[i].uid
                    = make_uid(make_uid_prefix(last.inputs.now, last.id), i - 1)
          /\ Cardinality(StatusWith(100)) = 1
          /\ Cardinality(StatusWith(900)) = 1
          /\ \A i \in PositionsOf(last.result.effects, "status", 1),
                j \in PositionsOf(last.result.effects, "publish", 1) : i < j
    /\ (IsMd5Call /\ ~last.result.changed) =>
          /\ last.result.published = <<>>
          /\ last.result.status = <<>>

PartialRun == IsDispatchRun /\ last.result.changed /\ last.inputs.fail_at > 0

\* C25: in a fan-out whose i-th publish raises, the messages published are the i-1
\* earlier ones and no later one, the run has appended its STARTED record and no
\* COMPLETED record, and the exception leaves the invocation: the event is a job error
\* that the scheduler's listener logs.
PartialFanOut ==
    PartialRun =>
        /\ Len(last.result.published) = last.inputs.fail_at - 1
        /\ \A i \in DOMAIN last.result.published :
              last.result.published[i].uid
                  = make_uid(make_uid_prefix(last.inputs.now, last.id), i - 1)
        /\ \A j \in last.inputs.fail_at..MaxAmount + 1 :
              PositionsOf(last.result.effects, "publish", j) = {}
        /\ \A i \in 1..(last.inputs.fail_at - 1) :
              Cardinality(PositionsOf(last.result.effects, "publish", i)) = 1
        /\ Cardinality(StatusWith(100)) = 1
        /\ StatusWith(900) = {}
        /\ PositionsOf(last.result.effects, "status", 2) = {}
        /\ last.result.raised
        /\ Crashed
        /\ CrashLogged

PartialFanOutWitness ==
    /\ PartialRun
    /\ last.inputs.fail_at = 2
    /\ timers[last.id].kwargs.amount = MaxAmount
    /\ Len(last.result.published) = 1

TimestampModeFuncs == {"job_pushing_meta_task", "clean_timestamp_by_job_name"}

HashModeFuncs == {"job_pushing_meta_task_md5", "clean_md5_by_job_name"}

OtherJobs(job_name) == Jobs \ {job_name}

\* C26: a check or a reset for a job in one mode changes no record of another job in
\* that mode and no record at all in the other mode; so what a job's next check of any
\* feed answers does not depend on the checks and resets of the other job that watches
\* the same platform: each detects the change that the other has detected.
SignaturePartition ==
    /\ [][(last' # last /\ last'.func \in TimestampModeFuncs)
            => /\ md5_files' = md5_files
               /\ \A k \in OtherJobs(last'.id) :
                     /\ RecordOf(timestamp_files', k) = RecordOf(timestamp_files, k)
                     /\ \A table \in Tables :
                           check_latest_timestamp(k, table, "ok", timestamp_files').changed
                               = check_latest_timestamp(k, table, "ok", timestamp_files).changed]_vars
    /\ [][(last' # last /\ last'.func \in HashModeFuncs)
            => /\ timestamp_files' = timestamp_files
               /\ \A k \in OtherJobs(last'.id) :
                     RecordOf(md5_files', k) = RecordOf(md5_files, k)]_vars

SignaturePartitionWitness ==
    /\ IsDispatchRun
    /\ last.id = "B"
    /\ last.result.changed
    /\ DOMAIN timestamp_files = Jobs
    /\ timestamp_files["A"] = timestamp_files["B"]
    /\ "A" \in DOMAIN md5_files
    /\ run_state = "done"
    /\ {timers[j].kwargs.platform_build : j \in Jobs} = {"win64"}

Differs == Observed /\ last.inputs.record_before # (last.id :> Latest)

MovedBack == Observed /\ HadRecord /\ last.inputs.record_before[last.id] > Latest

\* C28 as stated: a tick reports a change and fans out exactly when the fetch succeeded
\* and the latest timestamp differs from the stored record, in either direction; a
\* latest timestamp older than the record is a change, and the record becomes the older
\* value.
ChangeByInequalityAlways ==
    IsDispatchRun =>
        /\ last.result.changed <=> Differs
        /\ last.result.changed =>
              /\ RecordNow = (last.id :> Latest)
              /\ StatusWith(100) # {}
        /\ MovedBack => last.result.changed

\* C28 as amended: with a signature store that can be read and written, a tick reports a
\* change and fans out exactly when the fetch succeeded and the latest timestamp differs
\* from the stored record (or there is none), in either direction; a latest timestamp
\* older than the record is a change, the record becomes the older value and the messages
\* are published again.
ChangeByInequality ==
    (IsDispatchRun /\ last.inputs.storage = "ok") =>
        /\ last.result.changed <=> Differs
        /\ last.result.changed =>
              /\ RecordNow = (last.id :> Latest)
              /\ StatusWith(100) # {}
              /\ last.inputs.fail_at = 0 =>
                    Len(last.result.published) = timers[last.id].kwargs.amount
        /\ ~last.result.changed =>
              /\ RecordNow = last.inputs.record_before
              /\ last.result.published = <<>>
        /\ MovedBack =>
              /\ last.result.changed
              /\ timestamp_files[last.id] < last.inputs.record_before[last.id]

ChangeByInequalityWitness ==
    /\ IsDispatchRun
    /\ last.inputs.storage = "ok"
    /\ MovedBack
    /\ last.type = "executed"
    /\ Len(last.result.published) = MaxAmount
    /\ timestamp_files[last.id] = 1

=============================================================================
